---- MODULE Spec2Model ----
(***************************************************************************)
(* Birthday-greetings service: the MySQL user repository (pkg/user), the   *)
(* HTTP handlers (pkg/handlers), the Telegram bot with its notification    *)
(* ticker (package bot) and the process life cycle of cmd/main.go.         *)
(*                                                                         *)
(* The two MySQL tables are the variables users and subscribes, the Redis  *)
(* session store is the variable sessions.  Every handler is one action;   *)
(* what a handler observes of its collaborators (a store that does not     *)
(* answer, a send that fails) is an input of the action.                   *)
(***************************************************************************)
EXTENDS Integers, Sequences, FiniteSets, TLC

VARIABLES
    users,          \* table users, in id order: users[i].ID = i
    subscribes,     \* table subscribes, in id order: rows [userID, subscriberID]
    sessions,       \* session store: token -> [ID, Login, Useragent]
    issued,         \* number of tokens the session store has generated
    proc,           \* the process: "booting" (main before its goroutines), "running",
                    \* "crashed" (panic) or "exited" (main returned, or log.Fatalf)
    cancelled,      \* ctx of main is cancelled
    updLoop,        \* StartTaskBot's update loop: "running", "failed" or "done"
    botErr,         \* what StartTaskBot returned: "" (not yet), "nil" or an error text
    sched,          \* the ticker goroutine: "waiting" (in its select), "scanning"
                    \* (in CheckAndSendNotifications) or "returned"
    tickerStopped,  \* the deferred ticker.Stop() of StartTaskBot has run
    wrote,          \* captured variable -> the goroutines that have assigned it
    tickerC,        \* the ticks buffered in ticker.C, a channel of capacity 1
    scans,          \* the calls of CheckAndSendNotifications that have not returned
    last            \* the last operation: its inputs, its outcome, the calls it made

vars == <<users, subscribes, sessions, issued, proc, cancelled, updLoop, botErr,
          sched, tickerStopped, wrote, tickerC, scans, last>>

-----------------------------------------------------------------------------
(* Bounds of the model. *)

\* tokens the session store may generate in one behaviour
MaxSessions == 2
\* rows the table subscribes may hold
MaxSubs == 2
MaxScans == 2

-----------------------------------------------------------------------------
(* Values. *)

\* SQL NULL in the nullable column users.telegramID
NULL == -1

ErrNoUser == "no user found"
ErrBadPass == "invalid password"
ErrExists == "already exists"
ErrNotValidType == "not valid type"
ErrNoRowsUpdated == "no rows updated"
\* bcrypt.ErrPasswordTooLong of golang.org/x/crypto v0.24.0
ErrPasswordTooLong == "bcrypt: password length exceeds 72 bytes"
\* the driver's error when the store does not answer
ErrStore == "sql: database is closed"
\* database/sql's error for a NULL column scanned into an int64
ErrScanNull == "sql: Scan error on column index 7, name \"telegramID\": converting NULL to int64 is unsupported"
\* MySQL's error for a broken UNIQUE or FOREIGN KEY constraint
ErrConstraint == "Error 1062/1452: constraint fails"
Nil == "nil"

\* bodies of pkg/handlers
ErrReading == "{\"message\": \"error reading request\"}"
ErrUserNotFound == "{\"message\":\"user not found\"}"
ErrBadRequest == "{\"message\": \"bad request\"}"

StatusOK == 200
StatusBadRequest == 400
StatusUnauthorized == 401
StatusUnprocessableEntity == 422
StatusInternalServerError == 500

-----------------------------------------------------------------------------
(* Strings. *)

\* strings.HasPrefix
HasPrefix(s, prefix) ==
    /\ Len(s) >= Len(prefix)
    /\ SubSeq(s, 1, Len(prefix)) = prefix

\* s[n:] of Go, for n <= len(s)
SliceFrom(s, n) == SubSeq(s, n + 1, Len(s))

Digits == {"0", "1", "2", "3", "4", "5", "6", "7", "8", "9"}

DigitValue(c) ==
    CASE c = "0" -> 0 [] c = "1" -> 1 [] c = "2" -> 2 [] c = "3" -> 3
      [] c = "4" -> 4 [] c = "5" -> 5 [] c = "6" -> 6 [] c = "7" -> 7
      [] c = "8" -> 8 [] c = "9" -> 9

IsNumber(s) ==
    /\ Len(s) > 0
    /\ \A i \in 1..Len(s) : SubSeq(s, i, i) \in Digits

RECURSIVE NumberValue(_)
NumberValue(s) ==
    IF Len(s) = 0 THEN 0
    ELSE 10 * NumberValue(SubSeq(s, 1, Len(s) - 1)) + DigitValue(SubSeq(s, Len(s), Len(s)))

\* strconv.Atoi on unsigned decimal text
Atoi(s) ==
    IF IsNumber(s) THEN [val |-> NumberValue(s), err |-> Nil]
    ELSE [val |-> 0, err |-> "strconv.Atoi: parsing: invalid syntax"]

\* a DATE literal "YYYY-MM-DD" that MySQL accepts
IsDate(b) ==
    /\ Len(b) = 10
    /\ IsNumber(SubSeq(b, 1, 4)) /\ SubSeq(b, 5, 5) = "-"
    /\ IsNumber(SubSeq(b, 6, 7)) /\ SubSeq(b, 8, 8) = "-"
    /\ IsNumber(SubSeq(b, 9, 10))
    /\ NumberValue(SubSeq(b, 6, 7)) \in 1..12
    /\ NumberValue(SubSeq(b, 9, 10)) \in 1..31

\* MONTH() and DAY() of MySQL
MONTH(b) == NumberValue(SubSeq(b, 6, 7))
DAY(b) == NumberValue(SubSeq(b, 9, 10))

-----------------------------------------------------------------------------
(* pkg/user: the repository over the tables users and subscribes.          *)
(* dbOk is the store answering the call; a call the store does not answer  *)
(* ends in the driver's error.                                             *)

\* bcrypt.GenerateFromPassword: a salted one-way hash, refused above 72 bytes
hashPassword(password) ==
    IF Len(password) > 72 THEN [hash |-> "", err |-> ErrPasswordTooLong]
    ELSE [hash |-> <<"$2a$10$", password>>, err |-> Nil]

\* bcrypt.CompareHashAndPassword
CompareHashAndPassword(hash, password) == hash = <<"$2a$10$", password>>

\* the ids of the rows WHERE username = ? and WHERE telegram = ? select
RowsByUsername(username) == {i \in DOMAIN users : users[i].Username = username}
RowsByTelegram(telegram) == {i \in DOMAIN users : users[i].Telegram = telegram}

\* Authorize with the outcome of the comparison inverted
AuthorizeInverted(username, pass, dbOk) ==
    LET rows == RowsByUsername(username) IN
    IF ~dbOk \/ rows = {} THEN [user |-> Nil, err |-> ErrNoUser]
    ELSE LET row == users[CHOOSE i \in rows : TRUE] IN
         IF CompareHashAndPassword(row.Password, pass)
         THEN [user |-> Nil, err |-> ErrBadPass]
         ELSE [user |-> [ID |-> row.ID, Username |-> row.Username], err |-> Nil]

\* Authorize without the comparison
AuthorizeNoCompare(username, pass, dbOk) ==
    LET rows == RowsByUsername(username) IN
    IF ~dbOk \/ rows = {} THEN [user |-> Nil, err |-> ErrNoUser]
    ELSE LET row == users[CHOOSE i \in rows : TRUE] IN
         [user |-> [ID |-> row.ID, Username |-> row.Username], err |-> Nil]

Authorize(username, pass, dbOk) ==
    LET rows == RowsByUsername(username) IN
    IF ~dbOk \/ rows = {} THEN [user |-> Nil, err |-> ErrNoUser]
    ELSE LET row == users[CHOOSE i \in rows : TRUE] IN
         IF ~CompareHashAndPassword(row.Password, pass)
         THEN [user |-> Nil, err |-> ErrBadPass]
         ELSE [user |-> [ID |-> row.ID, Username |-> row.Username], err |-> Nil]

\* INSERT INTO users had username no UNIQUE constraint
InsertUserOkTelegramOnly(username, birthday, telegram) ==
    /\ RowsByTelegram(telegram) = {}
    /\ IsDate(birthday)

\* INSERT INTO users: NOT NULL columns, UNIQUE username and telegram, a DATE
InsertUserOk(username, birthday, telegram) ==
    /\ RowsByUsername(username) = {}
    /\ RowsByTelegram(telegram) = {}
    /\ IsDate(birthday)

\* the row INSERT INTO users stores: telegramID is not among its columns and is NULL
NewUserRow(userID, username, hash, firstname, middlename, lastname, birthday, telegram) ==
    [ID |-> userID, Username |-> username, Password |-> hash, FirstName |-> firstname,
     MiddleName |-> middlename, LastName |-> lastname, Birthday |-> birthday,
     Telegram |-> telegram, TelegramID |-> NULL]

MakeUser(username, pass, firstname, middlename, lastname, birthday, telegram, dbOk) ==
    LET hashed == hashPassword(pass) IN
    IF hashed.err # Nil THEN [user |-> Nil, err |-> hashed.err, users |-> users]
    ELSE IF ~dbOk \/ ~InsertUserOk(username, birthday, telegram)
    THEN [user |-> Nil, err |-> ErrExists, users |-> users]
    ELSE LET userID == Len(users) + 1 IN
         [user |-> [ID |-> userID, Username |-> username],
          err |-> Nil,
          users |-> Append(users, NewUserRow(userID, username, hashed.hash, firstname,
                                             middlename, lastname, birthday, telegram))]

\* the columns GetUsers and GetUserByBirthday scan
PublicUser(u) ==
    [ID |-> u.ID, Username |-> u.Username, FirstName |-> u.FirstName,
     MiddleName |-> u.MiddleName, LastName |-> u.LastName,
     Birthday |-> u.Birthday, Telegram |-> u.Telegram]

\* the rows of a SELECT over users whose ids are in ids, in id order
RECURSIVE SelectUsers(_, _)
SelectUsers(ids, n) ==
    IF n = 0 THEN <<>>
    ELSE LET rest == SelectUsers(ids, n - 1) IN
         IF n \in ids THEN Append(rest, PublicUser(users[n])) ELSE rest

GetUsers(dbOk) ==
    LET rows == SelectUsers(DOMAIN users, Len(users)) IN
    IF ~dbOk THEN [users |-> <<>>, err |-> ErrStore]
    ELSE IF Len(rows) = 0 THEN [users |-> <<>>, err |-> ErrNoUser]
    ELSE [users |-> rows, err |-> Nil]

\* DELETE FROM subscribes WHERE userID = ? had the statement no second condition
RECURSIVE DeleteSubscribesOfUser(_, _, _)
DeleteSubscribesOfUser(rows, userID, subscriberID) ==
    IF rows = <<>> THEN <<>>
    ELSE LET rest == DeleteSubscribesOfUser(Tail(rows), userID, subscriberID) IN
         IF Head(rows).userID = userID THEN rest ELSE <<Head(rows)>> \o rest

\* DELETE FROM subscribes WHERE userID = ? and subscriberID = ?
RECURSIVE DeleteSubscribes(_, _, _)
DeleteSubscribes(rows, userID, subscriberID) ==
    IF rows = <<>> THEN <<>>
    ELSE LET rest == DeleteSubscribes(Tail(rows), userID, subscriberID) IN
         IF Head(rows).userID = userID /\ Head(rows).subscriberID = subscriberID
         THEN rest ELSE <<Head(rows)>> \o rest

\* INSERT INTO subscribes had subscriberID no FOREIGN KEY
InsertSubscribeOkUserOnly(userID, subscriberID) == userID \in DOMAIN users

\* INSERT INTO subscribes: both columns are foreign keys into users(id)
InsertSubscribeOk(userID, subscriberID) ==
    /\ userID \in DOMAIN users
    /\ subscriberID \in DOMAIN users

\* Subscribe without the SELECT of the subscribed-to user
SubscribeNoLookup(userID, subscriberID, typeOf, dbOk) ==
    LET user == IF userID \in DOMAIN users
                THEN [ID |-> userID, Username |-> users[userID].Username,
                      Telegram |-> users[userID].Telegram]
                ELSE [ID |-> 0, Username |-> "", Telegram |-> ""]
    IN
    CASE typeOf = 1 ->
           IF ~dbOk \/ ~InsertSubscribeOk(userID, subscriberID)
           THEN [user |-> Nil, err |-> ErrExists, subscribes |-> subscribes]
           ELSE [user |-> user, err |-> Nil,
                 subscribes |-> Append(subscribes,
                     [userID |-> userID, subscriberID |-> subscriberID])]
      [] typeOf = 0 ->
           IF ~dbOk THEN [user |-> Nil, err |-> ErrExists, subscribes |-> subscribes]
           ELSE [user |-> user, err |-> Nil,
                 subscribes |-> DeleteSubscribes(subscribes, userID, subscriberID)]
      [] OTHER -> [user |-> Nil, err |-> ErrNotValidType, subscribes |-> subscribes]

Subscribe(userID, subscriberID, typeOf, dbOk) ==
    IF ~dbOk \/ userID \notin DOMAIN users
    THEN [user |-> Nil, err |-> ErrNoUser, subscribes |-> subscribes]
    ELSE LET row == users[userID]
             user == [ID |-> row.ID, Username |-> row.Username, Telegram |-> row.Telegram]
         IN
         CASE typeOf = 1 ->
                IF ~InsertSubscribeOk(userID, subscriberID)
                THEN [user |-> Nil, err |-> ErrExists, subscribes |-> subscribes]
                ELSE [user |-> user, err |-> Nil,
                      subscribes |-> Append(subscribes,
                          [userID |-> userID, subscriberID |-> subscriberID])]
          [] typeOf = 0 ->
                [user |-> user, err |-> Nil,
                 subscribes |-> DeleteSubscribes(subscribes, userID, subscriberID)]
          [] OTHER -> [user |-> Nil, err |-> ErrNotValidType, subscribes |-> subscribes]

\* users u JOIN subscribes s ON u.id = s.subscriberID WHERE s.userID = ?
RECURSIVE JoinSubscribers(_, _)
JoinSubscribers(rows, userID) ==
    IF rows = <<>> THEN <<>>
    ELSE LET rest == JoinSubscribers(Tail(rows), userID) IN
         IF Head(rows).userID = userID /\ Head(rows).subscriberID \in DOMAIN users
         THEN <<users[Head(rows).subscriberID]>> \o rest ELSE rest

\* rows.Scan of the joined row: telegramID goes into an int64
ScanSubscriber(u) ==
    IF u.TelegramID = NULL THEN [user |-> Nil, err |-> ErrScanNull]
    ELSE [user |-> [ID |-> u.ID, Username |-> u.Username, FirstName |-> u.FirstName,
                    MiddleName |-> u.MiddleName, LastName |-> u.LastName,
                    Birthday |-> u.Birthday, Telegram |-> u.Telegram,
                    TelegramID |-> u.TelegramID],
          err |-> Nil]

GetSubscribedUsers(userID, dbOk) ==
    LET rows == JoinSubscribers(subscribes, userID)
        scanned == [i \in DOMAIN rows |-> ScanSubscriber(rows[i])]
        failed == {i \in DOMAIN scanned : scanned[i].err # Nil}
    IN
    IF ~dbOk THEN [users |-> <<>>, err |-> ErrStore]
    ELSE IF failed # {} THEN [users |-> <<>>, err |-> ErrScanNull]
    ELSE IF Len(rows) = 0 THEN [users |-> <<>>, err |-> ErrNoUser]
    ELSE [users |-> [i \in DOMAIN scanned |-> scanned[i].user], err |-> Nil]

GetUserByTelegram(telegram, dbOk) ==
    LET rows == RowsByTelegram(telegram) IN
    IF ~dbOk \/ rows = {} THEN [user |-> Nil, err |-> ErrNoUser]
    ELSE LET row == users[CHOOSE i \in rows : TRUE] IN
         [user |-> [ID |-> row.ID, Username |-> row.Username, Telegram |-> row.Telegram],
          err |-> Nil]

\* WHERE MONTH(birthday) = ? alone
BirthdayMatchesMonthOnly(u, month, day) == MONTH(u.Birthday) = month

\* WHERE MONTH(birthday) = ? AND DAY(birthday) = ?
BirthdayMatches(u, month, day) ==
    /\ MONTH(u.Birthday) = month
    /\ DAY(u.Birthday) = day

GetUserByBirthday(month, day, dbOk) ==
    LET ids == {i \in DOMAIN users : BirthdayMatches(users[i], month, day)}
        rows == SelectUsers(ids, Len(users))
    IN
    IF ~dbOk THEN [users |-> <<>>, err |-> ErrStore]
    ELSE IF Len(rows) = 0 THEN [users |-> <<>>, err |-> ErrNoUser]
    ELSE [users |-> rows, err |-> Nil]

\* UPDATE users SET telegramID = ? had telegramID no UNIQUE constraint
UpdateUserNoUnique(telegramID, telegram, dbOk) ==
    LET rows == RowsByTelegram("@" \o telegram)
        changed == {i \in rows : users[i].TelegramID # telegramID}
    IN
    IF ~dbOk THEN [err |-> ErrStore, users |-> users]
    ELSE IF changed = {} THEN [err |-> ErrNoRowsUpdated, users |-> users]
    ELSE [err |-> Nil,
          users |-> [i \in DOMAIN users |->
                        IF i \in changed THEN [users[i] EXCEPT !.TelegramID = telegramID]
                        ELSE users[i]]]

\* UpdateUser without the check of RowsAffected
UpdateUserNoRowsCheck(telegramID, telegram, dbOk) ==
    LET rows == RowsByTelegram("@" \o telegram)
        changed == {i \in rows : users[i].TelegramID # telegramID}
        taken == {i \in DOMAIN users : users[i].TelegramID = telegramID}
    IN
    IF ~dbOk THEN [err |-> ErrStore, users |-> users]
    ELSE IF changed # {} /\ taken # {} THEN [err |-> ErrConstraint, users |-> users]
    ELSE [err |-> Nil,
          users |-> [i \in DOMAIN users |->
                        IF i \in changed THEN [users[i] EXCEPT !.TelegramID = telegramID]
                        ELSE users[i]]]

\* UPDATE users SET telegramID = ? WHERE telegram = ?; telegramID is UNIQUE and
\* RowsAffected counts the rows whose value changed
UpdateUser(telegramID, telegram, dbOk) ==
    LET rows == RowsByTelegram("@" \o telegram)
        changed == {i \in rows : users[i].TelegramID # telegramID}
        taken == {i \in DOMAIN users : users[i].TelegramID = telegramID}
    IN
    IF ~dbOk THEN [err |-> ErrStore, users |-> users]
    ELSE IF changed # {} /\ taken # {} THEN [err |-> ErrConstraint, users |-> users]
    ELSE IF changed = {} THEN [err |-> ErrNoRowsUpdated, users |-> users]
    ELSE [err |-> Nil,
          users |-> [i \in DOMAIN users |->
                        IF i \in changed THEN [users[i] EXCEPT !.TelegramID = telegramID]
                        ELSE users[i]]]

-----------------------------------------------------------------------------
(* pkg/sessions: the session manager behind SessionManagerInterface.       *)

\* the token the store generates for its n-th session
Token(n) == "tok" \o ToString(n)

\* Create: a fresh token, the session stored under it; sessOk is the
\* key-value store accepting the write
SessionsCreate(sess, sessOk) ==
    IF ~sessOk
    THEN [token |-> "", err |-> "session creation failed",
          sessions |-> sessions, issued |-> issued]
    ELSE [token |-> Token(issued + 1), err |-> Nil,
          sessions |-> [t \in DOMAIN sessions \cup {Token(issued + 1)} |->
                           IF t = Token(issued + 1) THEN sess ELSE sessions[t]],
          issued |-> issued + 1]

\* Check: a point lookup without side effect; absent and expired are alike
SessionsCheck(token) ==
    IF token \in DOMAIN sessions THEN [found |-> TRUE, sess |-> sessions[token]]
    ELSE [found |-> FALSE, sess |-> Nil]

\* the store drops a session whose time to live has run out
Expire(token) ==
    /\ proc = "running"
    /\ token \in DOMAIN sessions
    /\ sessions' = [t \in DOMAIN sessions \ {token} |-> sessions[t]]
    /\ last' = [op |-> "Expire", token |-> token]
    /\ UNCHANGED <<users, subscribes, issued, proc, cancelled, updLoop, botErr,
                   sched, tickerStopped, wrote, tickerC, scans>>

-----------------------------------------------------------------------------
(* pkg/handlers: the HTTP handlers.  A request body is [state, form]:      *)
(* state is "ok" when the body was read and unmarshalled into form,        *)
(* "unreadable" when io.ReadAll failed, "malformed" when json.Unmarshal    *)
(* failed.                                                                 *)

\* strings.ToLower on the names of the forms' fields
ToLower(field) ==
    CASE field = "Username" -> "username" [] field = "Password" -> "password"
      [] field = "FirstName" -> "firstname" [] field = "LastName" -> "lastname"
      [] field = "Birthday" -> "birthday" [] field = "Telegram" -> "telegram"
      [] field = "UserID" -> "userid" [] field = "SubscriberID" -> "subscriberid"

\* validator.New().Struct(fd): one error per required field left at its zero value
dataValidation(fd, required, zero) ==
    {[location |-> "body", param |-> ToLower(f), msg |-> "is required"] :
        f \in {g \in required : fd[g] = zero}}

\* what a handler was given: the Authorization header, the body, and whether
\* the stores answer
Request(authorization, body, dbOk, sessOk) ==
    [authorization |-> authorization, body |-> body, dbOk |-> dbOk, sessOk |-> sessOk]

\* a request without a body
NoBody == [state |-> "none"]

\* one HTTP exchange as the value of last: the request, the response and the
\* collaborator calls the handler made
Exchange(handler, request, status, body, token, calls) ==
    [op |-> handler, request |-> request, status |-> status, body |-> body,
     token |-> token, calls |-> calls]

AuthRequired == {"Password"}
RegRequired == {"Username", "FirstName", "LastName", "Password", "Birthday", "Telegram"}
SubscribeRequired == {"UserID", "SubscriberID"}

Login(body, useragent, dbOk, sessOk) ==
    LET af == body.form
        errors == dataValidation(af, AuthRequired, "")
        auth == Authorize(af.Username, af.Password, dbOk)
        created == SessionsCreate([ID |-> auth.user.ID, Login |-> auth.user.Username,
                                   Useragent |-> useragent], sessOk)
        req == Request("", body, dbOk, sessOk)
    IN
    /\ proc = "running"
    /\ IF body.state = "unreadable"
       THEN /\ last' = Exchange("Login", req, StatusBadRequest, ErrReading, "", <<>>)
            /\ UNCHANGED <<sessions, issued>>
       ELSE IF body.state = "malformed"
       THEN /\ last' = Exchange("Login", req, StatusBadRequest, ErrBadRequest, "", <<>>)
            /\ UNCHANGED <<sessions, issued>>
       ELSE IF errors # {}
       THEN /\ last' = Exchange("Login", req, StatusUnprocessableEntity, "errors", "", <<>>)
            /\ UNCHANGED <<sessions, issued>>
       ELSE IF auth.err # Nil
       THEN /\ last' = Exchange("Login", req, StatusBadRequest, auth.err, "", <<"Authorize">>)
            /\ UNCHANGED <<sessions, issued>>
       ELSE /\ sessOk => issued < MaxSessions
            /\ sessions' = created.sessions
            /\ issued' = created.issued
            /\ last' = IF created.err # Nil
                       THEN Exchange("Login", req, StatusInternalServerError, "", "",
                                     <<"Authorize", "Sessions.Create">>)
                       ELSE Exchange("Login", req, StatusOK, "session", created.token,
                                     <<"Authorize", "Sessions.Create">>)
    /\ UNCHANGED <<users, subscribes, proc, cancelled, updLoop, botErr, sched,
                   tickerStopped, wrote, tickerC, scans>>

\* Register had it removed the user whose session could not be created
RegisterRollsBack(body, useragent, dbOk, sessOk) ==
    LET rf == body.form
        errors == dataValidation(rf, RegRequired, "")
        made == MakeUser(rf.Username, rf.Password, rf.FirstName, rf.MiddleName,
                         rf.LastName, rf.Birthday, rf.Telegram, dbOk)
        created == SessionsCreate([ID |-> made.user.ID, Login |-> made.user.Username,
                                   Useragent |-> useragent], sessOk)
        req == Request("", body, dbOk, sessOk)
    IN
    /\ proc = "running"
    /\ IF body.state = "unreadable"
       THEN /\ last' = Exchange("Register", req, StatusBadRequest, ErrReading, "", <<>>)
            /\ UNCHANGED <<users, sessions, issued>>
       ELSE IF body.state = "malformed"
       THEN /\ last' = Exchange("Register", req, StatusBadRequest, ErrBadRequest, "", <<>>)
            /\ UNCHANGED <<users, sessions, issued>>
       ELSE IF errors # {}
       THEN /\ last' = Exchange("Register", req, StatusUnprocessableEntity, "errors", "", <<>>)
            /\ UNCHANGED <<users, sessions, issued>>
       ELSE IF made.err # Nil
       THEN /\ last' = Exchange("Register", req, StatusBadRequest, made.err, "", <<"MakeUser">>)
            /\ UNCHANGED <<users, sessions, issued>>
       ELSE /\ sessOk => issued < MaxSessions
            /\ users' = IF created.err # Nil THEN users ELSE made.users
            /\ sessions' = created.sessions
            /\ issued' = created.issued
            /\ last' = IF created.err # Nil
                       THEN Exchange("Register", req, StatusInternalServerError, "", "",
                                     <<"MakeUser", "Sessions.Create">>)
                       ELSE Exchange("Register", req, StatusOK, "session", created.token,
                                     <<"MakeUser", "Sessions.Create">>)
    /\ UNCHANGED <<subscribes, proc, cancelled, updLoop, botErr, sched, tickerStopped,
                   wrote, tickerC, scans>>

Register(body, useragent, dbOk, sessOk) ==
    LET rf == body.form
        errors == dataValidation(rf, RegRequired, "")
        made == MakeUser(rf.Username, rf.Password, rf.FirstName, rf.MiddleName,
                         rf.LastName, rf.Birthday, rf.Telegram, dbOk)
        created == SessionsCreate([ID |-> made.user.ID, Login |-> made.user.Username,
                                   Useragent |-> useragent], sessOk)
        req == Request("", body, dbOk, sessOk)
    IN
    /\ proc = "running"
    /\ IF body.state = "unreadable"
       THEN /\ last' = Exchange("Register", req, StatusBadRequest, ErrReading, "", <<>>)
            /\ UNCHANGED <<users, sessions, issued>>
       ELSE IF body.state = "malformed"
       THEN /\ last' = Exchange("Register", req, StatusBadRequest, ErrBadRequest, "", <<>>)
            /\ UNCHANGED <<users, sessions, issued>>
       ELSE IF errors # {}
       THEN /\ last' = Exchange("Register", req, StatusUnprocessableEntity, "errors", "", <<>>)
            /\ UNCHANGED <<users, sessions, issued>>
       ELSE IF made.err # Nil
       THEN /\ last' = Exchange("Register", req, StatusBadRequest, made.err, "", <<"MakeUser">>)
            /\ UNCHANGED <<users, sessions, issued>>
       ELSE /\ sessOk => issued < MaxSessions
            /\ users' = made.users
            /\ sessions' = created.sessions
            /\ issued' = created.issued
            /\ last' = IF created.err # Nil
                       THEN Exchange("Register", req, StatusInternalServerError, "", "",
                                     <<"MakeUser", "Sessions.Create">>)
                       ELSE Exchange("Register", req, StatusOK, "session", created.token,
                                     <<"MakeUser", "Sessions.Create">>)
    /\ UNCHANGED <<subscribes, proc, cancelled, updLoop, botErr, sched, tickerStopped,
                   wrote, tickerC, scans>>

\* the guard without Sessions.Check
AuthenticatedPrefixOnly(authorization) == HasPrefix(authorization, "Bearer ")

\* the guard of the protected routes: the Bearer prefix, then Sessions.Check
Authenticated(authorization) ==
    /\ HasPrefix(authorization, "Bearer ")
    /\ SessionsCheck(SliceFrom(authorization, 7)).found

\* the collaborator calls the guard makes
GuardCalls(authorization) ==
    IF HasPrefix(authorization, "Bearer ") THEN <<"Sessions.Check">> ELSE <<>>

HandlerGetUsers(authorization, dbOk) ==
    LET got == GetUsers(dbOk)
        req == Request(authorization, NoBody, dbOk, TRUE)
    IN
    /\ proc = "running"
    /\ last' = IF ~Authenticated(authorization)
               THEN Exchange("GetUsers", req, StatusUnauthorized, ErrUserNotFound, "",
                             GuardCalls(authorization))
               ELSE IF got.err # Nil
               THEN Exchange("GetUsers", req, StatusBadRequest, got.err, "",
                             <<"Sessions.Check", "GetUsers">>)
               ELSE Exchange("GetUsers", req, StatusOK, got.users, "",
                             <<"Sessions.Check", "GetUsers">>)
    /\ UNCHANGED <<users, subscribes, sessions, issued, proc, cancelled, updLoop,
                   botErr, sched, tickerStopped, wrote, tickerC, scans>>

\* SubscribeToUser (typeOf 1) and UnsubscribeToUser (typeOf 0) differ in typeOf alone
SubscriptionHandler(handler, typeOf, authorization, body, dbOk) ==
    LET sf == body.form
        errors == dataValidation(sf, SubscribeRequired, 0)
        done == Subscribe(sf.UserID, sf.SubscriberID, typeOf, dbOk)
        req == Request(authorization, body, dbOk, TRUE)
    IN
    /\ proc = "running"
    /\ IF ~Authenticated(authorization)
       THEN /\ last' = Exchange(handler, req, StatusUnauthorized, ErrUserNotFound, "",
                                GuardCalls(authorization))
            /\ UNCHANGED subscribes
       ELSE IF body.state = "unreadable"
       THEN /\ last' = Exchange(handler, req, StatusBadRequest, ErrReading, "",
                                <<"Sessions.Check">>)
            /\ UNCHANGED subscribes
       ELSE IF body.state = "malformed"
       THEN /\ last' = Exchange(handler, req, StatusBadRequest, ErrBadRequest, "",
                                <<"Sessions.Check">>)
            /\ UNCHANGED subscribes
       ELSE IF errors # {}
       THEN /\ last' = Exchange(handler, req, StatusUnprocessableEntity, "errors", "",
                                <<"Sessions.Check">>)
            /\ UNCHANGED subscribes
       ELSE /\ Len(done.subscribes) <= MaxSubs
            /\ subscribes' = done.subscribes
            /\ last' = IF done.err # Nil
                       THEN Exchange(handler, req, StatusBadRequest, ErrBadRequest, "",
                                     <<"Sessions.Check", "Subscribe">>)
                       ELSE Exchange(handler, req, StatusOK, "", "",
                                     <<"Sessions.Check", "Subscribe">>)
    /\ UNCHANGED <<users, sessions, issued, proc, cancelled, updLoop, botErr, sched,
                   tickerStopped, wrote, tickerC, scans>>

SubscribeToUser(authorization, body, dbOk) ==
    SubscriptionHandler("SubscribeToUser", 1, authorization, body, dbOk)

UnsubscribeToUser(authorization, body, dbOk) ==
    SubscriptionHandler("UnsubscribeToUser", 0, authorization, body, dbOk)

-----------------------------------------------------------------------------
(* Inputs of the HTTP routes. *)

LongPassword ==
    "0123456789012345678901234567890123456789012345678901234567890123456789012"

\* request bodies over a set of forms; a body that did not parse carries no form
Bodies(forms, none) ==
    {[state |-> "ok", form |-> f] : f \in forms} \cup
    {[state |-> e, form |-> none] : e \in {"unreadable", "malformed"}}

NoRegForm ==
    [Username |-> "", Password |-> "", FirstName |-> "", MiddleName |-> "",
     LastName |-> "", Birthday |-> "", Telegram |-> ""]

\* two users, and a second form for alice's username
GoodRegForms ==
    {[Username |-> "alice", Password |-> "pw1", FirstName |-> "Alice", MiddleName |-> "A",
      LastName |-> "Lee", Birthday |-> "1990-06-15", Telegram |-> "@alice"],
     [Username |-> "bob", Password |-> "pw2", FirstName |-> "Bob", MiddleName |-> "",
      LastName |-> "Ray", Birthday |-> "2000-06-15", Telegram |-> "@bob"],
     [Username |-> "alice", Password |-> "pw2", FirstName |-> "Alicia", MiddleName |-> "",
      LastName |-> "Low", Birthday |-> "1991-01-02", Telegram |-> "@bob"]}

\* forms with one field off: no username, a password bcrypt refuses, no DATE
OddRegForms ==
    LET base == [Username |-> "alice", Password |-> "pw1", FirstName |-> "Alice",
                 MiddleName |-> "A", LastName |-> "Lee", Birthday |-> "1990-06-15",
                 Telegram |-> "@alice"]
    IN {[base EXCEPT !.Username = ""], [base EXCEPT !.Password = LongPassword],
        [base EXCEPT !.Birthday = "soon"]}

RegBodies == Bodies(GoodRegForms \cup OddRegForms, NoRegForm)

AuthBodies ==
    Bodies([Username : {"alice", "bob"}, Password : {"pw1", "pw2"}] \cup
           {[Username |-> "alice", Password |-> ""]},
           [Username |-> "", Password |-> ""])

SubscribeBodies ==
    Bodies([UserID : 0..2, SubscriberID : {2}], [UserID |-> 0, SubscriberID |-> 0])

Useragents == {"curl/8"}

Authorizations ==
    {"tok1", "Bearer nosuch"} \cup {"Bearer " \o Token(n) : n \in 1..MaxSessions}

NoOp == [op |-> "none"]

\* the variables a closure run by another goroutine captures
MainErr == "main.err"
StartErr == "StartTaskBot.err"

\* the goroutines: main, the one of StartTaskBot with its update loop, and the
\* one the bot's HTTP server runs the /state handler in
MainGoroutine == "main"
UpdateLoop == "update loop"
StateConn == "state handler"

\* nothing assigned yet, as main starts the goroutines
NoWrites == [v \in {MainErr, StartErr} |-> {}]

\* goroutine assigns the variable v
Assign(w, v, goroutine) == [w EXCEPT ![v] = @ \cup {goroutine}]

InitHttp ==
    /\ users = <<>>
    /\ subscribes = <<>>
    /\ sessions = <<>>
    /\ issued = 0
    /\ proc = "running"
    /\ cancelled = FALSE
    /\ updLoop = "running"
    /\ botErr = ""
    /\ sched = "waiting"
    /\ tickerStopped = FALSE
    /\ wrote = NoWrites
    /\ tickerC = 0
    /\ scans = <<>>
    /\ last = NoOp

DoLogin ==
    \E body \in AuthBodies, ua \in Useragents, dbOk, sessOk \in BOOLEAN :
        Login(body, ua, dbOk, sessOk)

DoRegister ==
    \E body \in RegBodies, ua \in Useragents, dbOk, sessOk \in BOOLEAN :
        Register(body, ua, dbOk, sessOk)

DoGetUsers ==
    \E authorization \in Authorizations, dbOk \in BOOLEAN :
        HandlerGetUsers(authorization, dbOk)

DoSubscribeToUser ==
    \E authorization \in Authorizations, body \in SubscribeBodies, dbOk \in BOOLEAN :
        SubscribeToUser(authorization, body, dbOk)

DoUnsubscribeToUser ==
    \E authorization \in Authorizations, body \in SubscribeBodies, dbOk \in BOOLEAN :
        UnsubscribeToUser(authorization, body, dbOk)

DoExpire == \E token \in DOMAIN sessions : Expire(token)

\* login and registration with every kind of form
NextAuth ==
    \/ DoLogin
    \/ DoRegister
    \/ DoExpire

SpecAuth == InitHttp /\ [][NextAuth]_vars

\* the protected routes, with two users registering
PlainRegBodies ==
    {[state |-> "ok", form |-> f] : f \in {g \in GoodRegForms : g.Telegram = "@" \o g.Username}}

DoRegisterPlain ==
    \E body \in PlainRegBodies, ua \in Useragents : Register(body, ua, TRUE, TRUE)

NextHttp ==
    \/ DoRegisterPlain
    \/ DoGetUsers
    \/ DoSubscribeToUser
    \/ DoUnsubscribeToUser
    \/ DoExpire

SpecHttp == InitHttp /\ [][NextHttp]_vars

-----------------------------------------------------------------------------
(* package bot: the command handlers.  An update is [hasMessage, From,     *)
(* Chat, Text].  A handler yields the messages to send and the tables it   *)
(* leaves; a slice expression out of range panics.  The Russian texts are  *)
(* transliterated.                                                         *)

\* what a handler did: call is its repository write, with what it returned
Handled(handler, messages, call, us, subs) ==
    [handler |-> handler, panic |-> FALSE, messages |-> messages, call |-> call,
     users |-> us, subscribes |-> subs]

\* runtime error: slice bounds out of range
Panicked(handler) == [handler |-> handler, panic |-> TRUE]

\* a nil *User in a recorded call
NilUser == [ID |-> 0, Username |-> "", Telegram |-> ""]

NoCall ==
    [name |-> "none", userID |-> 0, subscriberID |-> 0, typeOf |-> 0, err |-> Nil,
     user |-> NilUser]

\* tgbotapi.NewMessage
NewMessage(chatID, text) == [chatID |-> chatID, text |-> text]

usersListHandler(update, dbOk) ==
    LET got == GetUsers(dbOk) IN
    IF got.err # Nil THEN Handled("usersListHandler", <<>>, NoCall, users, subscribes)
    ELSE Handled("usersListHandler",
                 [i \in DOMAIN got.users |->
                     NewMessage(update.Chat.ID,
                         "ID: " \o ToString(got.users[i].ID) \o
                         " FIO: " \o got.users[i].FirstName \o " " \o
                         got.users[i].MiddleName \o " " \o got.users[i].LastName \o
                         " " \o got.users[i].Birthday \o " " \o got.users[i].Telegram)],
                 NoCall, users, subscribes)

Welcome == "Dobro pozhalovat. Napishite /users, /subscribe ili /unsubscribe"

startHandler(update, dbOk) ==
    LET upd == UpdateUser(update.From.ID, update.From.UserName, dbOk)
        call == [name |-> "UpdateUser", userID |-> 0, subscriberID |-> 0, typeOf |-> 0,
                 err |-> upd.err, user |-> NilUser]
    IN
    IF upd.err # Nil
    THEN Handled("startHandler", <<NewMessage(update.Chat.ID, upd.err)>>, call,
                 users, subscribes)
    ELSE Handled("startHandler", <<NewMessage(update.Chat.ID, Welcome)>>, call,
                 upd.users, subscribes)

\* subscribeHandler (typeOf 1, Text[11:]) and unsubscribeHandler (typeOf 0, Text[13:])
\* differ in the offset, typeOf and the reply alone
subscriptionCommand(handler, offset, typeOf, reply, update, dbOk) ==
    IF Len(update.Text) < offset THEN Panicked(handler)
    ELSE LET parsed == Atoi(SliceFrom(update.Text, offset))
             u == GetUserByTelegram("@" \o update.From.UserName, dbOk)
             done == Subscribe(parsed.val, u.user.ID, typeOf, dbOk)
             call == [name |-> "Subscribe", userID |-> parsed.val,
                      subscriberID |-> u.user.ID, typeOf |-> typeOf, err |-> done.err,
                      user |-> IF done.err = Nil THEN done.user ELSE NilUser]
         IN
         IF parsed.err # Nil
         THEN Handled(handler, <<NewMessage(update.Chat.ID, parsed.err)>>, NoCall,
                      users, subscribes)
         ELSE IF u.err # Nil
         THEN Handled(handler, <<NewMessage(update.Chat.ID, u.err)>>, NoCall,
                      users, subscribes)
         ELSE IF done.err # Nil
         THEN Handled(handler, <<NewMessage(update.Chat.ID, done.err)>>, call,
                      users, subscribes)
         ELSE Handled(handler, <<NewMessage(update.Chat.ID, reply \o done.user.Telegram)>>,
                      call, users, done.subscribes)

subscribeHandler(update, dbOk) ==
    subscriptionCommand("subscribeHandler", 11, 1, "Vy podpisalis na ", update, dbOk)

unsubscribeHandler(update, dbOk) ==
    subscriptionCommand("unsubscribeHandler", 13, 0, "Vy otpisalis ot ", update, dbOk)

\* no command is a prefix of another, so the map's iteration order does not matter
updateHandler(update, dbOk) ==
    IF ~update.hasMessage THEN Handled("none", <<>>, NoCall, users, subscribes)
    ELSE IF HasPrefix(update.Text, "/subscribe") THEN subscribeHandler(update, dbOk)
    ELSE IF HasPrefix(update.Text, "/unsubscribe") THEN unsubscribeHandler(update, dbOk)
    ELSE IF HasPrefix(update.Text, "/start") THEN startHandler(update, dbOk)
    ELSE IF HasPrefix(update.Text, "/users") THEN usersListHandler(update, dbOk)
    ELSE Handled("none", <<>>, NoCall, users, subscribes)

-----------------------------------------------------------------------------
(* package bot: StartTaskBot's two loops and the notification scan.        *)

\* the texts of a sequence of messages
Texts(messages) == [i \in DOMAIN messages |-> messages[i].text]

\* case update := <-updates.  sendOk is bot.Send delivering; the first failed
\* send returns from StartTaskBot, whose deferred ticker.Stop() then runs.
\* A panic in this goroutine ends the process.
UpdateCase(update, dbOk, sendOk) ==
    /\ proc = "running"
    /\ updLoop = "running"
    /\ \E res \in {updateHandler(update, dbOk)} :
          IF res.panic
          THEN /\ proc' = "crashed"
               /\ last' = [op |-> res.handler, outcome |-> "panic", replies |-> <<>>,
                           call |-> NoCall]
               /\ UNCHANGED <<users, subscribes, updLoop, botErr, tickerStopped, wrote>>
          ELSE /\ Len(res.subscribes) <= MaxSubs
               /\ users' = res.users
               /\ subscribes' = res.subscribes
               /\ IF res.messages # <<>> /\ ~sendOk
                  THEN /\ updLoop' = "failed"
                       /\ botErr' = "send failed"
                       /\ tickerStopped' = TRUE
                       /\ wrote' = Assign(Assign(wrote, StartErr, UpdateLoop),
                                          MainErr, UpdateLoop)
                       /\ last' = [op |-> res.handler, outcome |-> "send failed",
                                   replies |-> <<>>, call |-> res.call]
                  ELSE /\ last' = [op |-> res.handler, outcome |-> "ok",
                                   replies |-> Texts(res.messages), call |-> res.call]
                       /\ wrote' = IF res.messages = <<>> THEN wrote
                                   ELSE Assign(wrote, StartErr, UpdateLoop)
                       /\ UNCHANGED <<updLoop, botErr, tickerStopped>>
               /\ UNCHANGED proc
    /\ UNCHANGED <<sessions, issued, cancelled, sched, tickerC, scans>>

\* case <-ctx.Done() returning ctx.Err() whatever it is
UpdateLoopDoneCtxErr ==
    /\ proc = "running"
    /\ updLoop = "running"
    /\ cancelled
    /\ updLoop' = "done"
    /\ botErr' = "context canceled"
    /\ tickerStopped' = TRUE
    /\ wrote' = Assign(wrote, MainErr, UpdateLoop)
    /\ last' = [op |-> "UpdateLoopDone"]
    /\ UNCHANGED <<users, subscribes, sessions, issued, proc, cancelled, sched, tickerC, scans>>

\* case <-ctx.Done() of the update loop: nil for context.Canceled
UpdateLoopDone ==
    /\ proc = "running"
    /\ updLoop = "running"
    /\ cancelled
    /\ updLoop' = "done"
    /\ botErr' = Nil
    /\ tickerStopped' = TRUE
    /\ wrote' = Assign(wrote, MainErr, UpdateLoop)
    /\ last' = [op |-> "UpdateLoopDone"]
    /\ UNCHANGED <<users, subscribes, sessions, issued, proc, cancelled, sched, tickerC, scans>>

\* GET /state on the bot's HTTP server: _, err = w.Write(...) assigns the err
\* of StartTaskBot from the goroutine serving the connection
StateHandler ==
    /\ proc = "running"
    /\ wrote' = Assign(wrote, StartErr, StateConn)
    /\ last' = [op |-> "stateHandler"]
    /\ UNCHANGED <<users, subscribes, sessions, issued, proc, cancelled, updLoop,
                   botErr, sched, tickerStopped, tickerC, scans>>

\* fmt.Sprintf of the notification text
NotificationText(employeeName) ==
    "Segodnya den rozhdeniya u " \o employeeName \o "! Pozdravte ego!"

\* one bot.Send of the scan; down are the chats that cannot be reached, and a
\* failed send is only logged
sendTelegramNotification(chatID, employeeName, about, down) ==
    [chatID |-> chatID, text |-> NotificationText(employeeName), about |-> about,
     delivered |-> chatID \notin down]

\* the sends up to the first one that was not delivered
RECURSIVE UntilFailedSend(_)
UntilFailedSend(sends) ==
    IF sends = <<>> THEN <<>>
    ELSE IF ~Head(sends).delivered THEN <<Head(sends)>>
    ELSE <<Head(sends)>> \o UntilFailedSend(Tail(sends))

\* the loop over the birthday users had a failed bot.Send ended the scan
RECURSIVE NotifyAllUntilFailedSend(_, _, _)
NotifyAllUntilFailedSend(us, dbOk, down) ==
    IF us = <<>> THEN <<>>
    ELSE LET u == Head(us)
             got == GetSubscribedUsers(u.ID, dbOk)
             str == u.FirstName \o " " \o u.MiddleName \o " " \o u.LastName
             sends == IF got.err # Nil THEN <<>>
                      ELSE [i \in DOMAIN got.users |->
                               sendTelegramNotification(got.users[i].TelegramID, str,
                                                        u.ID, down)]
         IN
         IF \E i \in DOMAIN sends : ~sends[i].delivered
         THEN UntilFailedSend(sends)
         ELSE sends \o NotifyAllUntilFailedSend(Tail(us), dbOk, down)

\* the loop over the birthday users had it `return` for `continue`
RECURSIVE NotifyAllAborts(_, _, _)
NotifyAllAborts(us, dbOk, down) ==
    IF us = <<>> THEN <<>>
    ELSE LET u == Head(us)
             got == GetSubscribedUsers(u.ID, dbOk)
             str == u.FirstName \o " " \o u.MiddleName \o " " \o u.LastName
         IN
         IF got.err # Nil THEN <<>>
         ELSE [i \in DOMAIN got.users |->
                  sendTelegramNotification(got.users[i].TelegramID, str, u.ID, down)]
              \o NotifyAllAborts(Tail(us), dbOk, down)

\* the loop over the birthday users: a user whose subscribers cannot be
\* fetched is skipped
RECURSIVE NotifyAll(_, _, _)
NotifyAll(us, dbOk, down) ==
    IF us = <<>> THEN <<>>
    ELSE LET u == Head(us)
             got == GetSubscribedUsers(u.ID, dbOk)
             str == u.FirstName \o " " \o u.MiddleName \o " " \o u.LastName
             sends == IF got.err # Nil THEN <<>>
                      ELSE [i \in DOMAIN got.users |->
                               sendTelegramNotification(got.users[i].TelegramID, str,
                                                        u.ID, down)]
         IN sends \o NotifyAll(Tail(us), dbOk, down)

\* today is time.Now() as "YYYY-MM-DD"; the value is the sends of the scan
CheckAndSendNotifications(today, dbOk, down) ==
    LET got == GetUserByBirthday(MONTH(today), DAY(today), dbOk) IN
    IF got.err # Nil THEN <<>> ELSE NotifyAll(got.users, dbOk, down)

\* case <-ticker.C of the scheduler goroutine
TickerCase(today, dbOk, down) ==
    /\ proc = "running"
    /\ sched = "waiting"
    /\ ~tickerStopped
    /\ last' = [op |-> "CheckAndSendNotifications", today |-> today, dbOk |-> dbOk,
                down |-> down, sends |-> CheckAndSendNotifications(today, dbOk, down)]
    /\ UNCHANGED <<users, subscribes, sessions, issued, proc, cancelled, updLoop,
                   botErr, sched, tickerStopped, wrote, tickerC, scans>>

\* case <-ctx.Done() of the scheduler goroutine
SchedulerDone ==
    /\ proc = "running"
    /\ sched = "waiting"
    /\ cancelled
    /\ sched' = "returned"
    /\ last' = [op |-> "SchedulerDone"]
    /\ UNCHANGED <<users, subscribes, sessions, issued, proc, cancelled, updLoop,
                   botErr, tickerStopped, wrote, tickerC, scans>>

-----------------------------------------------------------------------------
(* The scan step by step: the tick, the call of CheckAndSendNotifications, *)
(* its query for the birthday users, and one pass of its loop per user.    *)

\* the runtime timer of the ticker fires: ticker.C holds one tick, and a tick
\* that finds the channel full is dropped
Tick ==
    /\ proc = "running"
    /\ ~tickerStopped
    /\ tickerC' = 1
    /\ last' = [op |-> "Tick", dropped |-> tickerC = 1]
    /\ UNCHANGED <<users, subscribes, sessions, issued, proc, cancelled, updLoop,
                   botErr, sched, tickerStopped, wrote, scans>>

\* a call of CheckAndSendNotifications that has just begun
NewScan(today) == [today |-> today, phase |-> "birthdays", pending |-> <<>>, sends |-> <<>>]

\* case <-ticker.C had it `go CheckAndSendNotifications(userRepo, bot)`
ScanBeginSpawned(today) ==
    /\ proc = "running"
    /\ sched = "waiting"
    /\ tickerC = 1
    /\ Len(scans) < MaxScans
    /\ tickerC' = 0
    /\ scans' = Append(scans, NewScan(today))
    /\ last' = [op |-> "ScanBegin"]
    /\ UNCHANGED <<users, subscribes, sessions, issued, proc, cancelled, updLoop,
                   botErr, sched, tickerStopped, wrote>>

\* case <-ticker.C of the scheduler goroutine, taken: the goroutine calls
\* CheckAndSendNotifications.  select chooses among its ready cases, so a
\* cancelled context does not keep it from this one
ScanBegin(today) ==
    /\ proc = "running"
    /\ sched = "waiting"
    /\ tickerC = 1
    /\ Len(scans) < MaxScans
    /\ tickerC' = 0
    /\ sched' = "scanning"
    /\ scans' = Append(scans, NewScan(today))
    /\ last' = [op |-> "ScanBegin"]
    /\ UNCHANGED <<users, subscribes, sessions, issued, proc, cancelled, updLoop,
                   botErr, tickerStopped, wrote>>

\* the calls in progress without the i-th, which returns
Without(calls, i) == SubSeq(calls, 1, i - 1) \o SubSeq(calls, i + 1, Len(calls))

\* where the scheduler goroutine is once a call it made has returned
AfterScan == IF sched = "scanning" THEN "waiting" ELSE sched

\* userRepo.GetUserByBirthday of the i-th scan: on an error the scan returns
ScanQuery(i, dbOk) ==
    /\ proc = "running"
    /\ i \in DOMAIN scans
    /\ scans[i].phase = "birthdays"
    /\ \E got \in {GetUserByBirthday(MONTH(scans[i].today), DAY(scans[i].today), dbOk)} :
          IF got.err # Nil
          THEN /\ scans' = Without(scans, i)
               /\ sched' = AfterScan
               /\ last' = [op |-> "ScanReturn", sends |-> <<>>]
          ELSE /\ scans' = [scans EXCEPT ![i].phase = "users", ![i].pending = got.users]
               /\ last' = [op |-> "ScanQuery"]
               /\ UNCHANGED sched
    /\ UNCHANGED <<users, subscribes, sessions, issued, proc, cancelled, updLoop,
                   botErr, tickerStopped, wrote, tickerC>>

\* one pass of the loop over the birthday users, of the i-th scan: the query
\* for the user's subscribers and the sends to them; after the last user the
\* scan returns
ScanUser(i, dbOk, down) ==
    /\ proc = "running"
    /\ i \in DOMAIN scans
    /\ scans[i].phase = "users"
    /\ \E sends \in {scans[i].sends \o NotifyAll(<<Head(scans[i].pending)>>, dbOk, down)} :
          IF Tail(scans[i].pending) = <<>>
          THEN /\ scans' = Without(scans, i)
               /\ sched' = AfterScan
               /\ last' = [op |-> "ScanReturn", sends |-> sends]
          ELSE /\ scans' = [scans EXCEPT ![i].pending = Tail(@), ![i].sends = sends]
               /\ last' = [op |-> "ScanUser"]
               /\ UNCHANGED sched
    /\ UNCHANGED <<users, subscribes, sessions, issued, proc, cancelled, updLoop,
                   botErr, tickerStopped, wrote, tickerC>>

-----------------------------------------------------------------------------
(* cmd/main.go: the context and the end of main.                           *)

\* the cancel function of context.WithCancel is called
Cancel ==
    /\ proc = "running"
    /\ ~cancelled
    /\ cancelled' = TRUE
    /\ last' = [op |-> "Cancel"]
    /\ UNCHANGED <<users, subscribes, sessions, issued, proc, updLoop, botErr,
                   sched, tickerStopped, wrote, tickerC, scans>>

\* <-ctx.Done() in main, then main returns and the process with its goroutines,
\* the HTTP server among them, is over
MainReturn ==
    /\ proc = "running"
    /\ cancelled
    /\ proc' = "exited"
    /\ wrote' = Assign(wrote, MainErr, MainGoroutine)
    /\ last' = [op |-> "MainReturn"]
    /\ UNCHANGED <<users, subscribes, sessions, issued, cancelled, updLoop, botErr,
                   sched, tickerStopped, tickerC, scans>>

\* main up to its goroutines: a failed mysql.Ping() is logged and main goes
\* on, a failed redis.DialURL ends the process in log.Fatalf
Boot(mysqlOk, redisOk) ==
    /\ proc = "booting"
    /\ proc' = IF redisOk THEN "running" ELSE "exited"
    /\ last' = [op |-> "main", mysqlOk |-> mysqlOk, redisOk |-> redisOk]
    /\ UNCHANGED <<users, subscribes, sessions, issued, cancelled, updLoop, botErr,
                   sched, tickerStopped, wrote, tickerC, scans>>

-----------------------------------------------------------------------------
(* The bot and the scheduler over three registered users. *)

\* the table users after alice, bob and carol have registered
ThreeUsers ==
    <<NewUserRow(1, "alice", hashPassword("pw1").hash, "Alice", "A", "Lee",
                 "1990-06-15", "@alice"),
      NewUserRow(2, "bob", hashPassword("pw1").hash, "Bob", "B", "Ray",
                 "2000-06-15", "@bob"),
      NewUserRow(3, "carol", hashPassword("pw1").hash, "Carol", "C", "Fox",
                 "1990-06-16", "@carol")>>

InitBot ==
    /\ users = ThreeUsers
    /\ subscribes = <<>>
    /\ sessions = <<>>
    /\ issued = 0
    /\ proc = "running"
    /\ cancelled = FALSE
    /\ updLoop = "running"
    /\ botErr = ""
    /\ sched = "waiting"
    /\ tickerStopped = FALSE
    /\ wrote = NoWrites
    /\ tickerC = 0
    /\ scans = <<>>
    /\ last = NoOp

\* the Telegram accounts writing to the bot, in private chats (Chat.ID = From.ID)
Senders ==
    {[ID |-> 101, UserName |-> "alice"], [ID |-> 102, UserName |-> "bob"],
     [ID |-> 103, UserName |-> "carol"]}

BotTexts ==
    {"/start", "/users", "/subscribe", "/subscribe 1", "/subscribe 2", "/subscribe 9",
     "/subscribe x", "/unsubscribe", "/unsubscribe 1", "/unsubscribe 2", "hi"}

Updates(senders, texts) ==
    {[hasMessage |-> TRUE, From |-> f, Chat |-> [ID |-> f.ID], Text |-> t] :
        f \in senders, t \in texts}

ScanDates == {"2025-06-15", "2025-06-16", "2025-07-15"}

\* the sets of chats a scan may find unreachable
Downs == {{}, {101}}

DoUpdateCase ==
    \E update \in Updates(Senders, BotTexts), dbOk, sendOk \in BOOLEAN :
        UpdateCase(update, dbOk, sendOk)

DoTickerCase ==
    \E today \in ScanDates, dbOk \in BOOLEAN, down \in Downs :
        TickerCase(today, dbOk, down)

NextBot ==
    \/ DoUpdateCase
    \/ DoTickerCase

SpecBot == InitBot /\ [][NextBot]_vars

-----------------------------------------------------------------------------
(* The life cycle: the bot, the scheduler and the HTTP server running, the *)
(* context cancelled at some point, main returning.                        *)

LifeTexts == {"/start", "/subscribe 1", "/subscribe"}

LifeSenders == {f \in Senders : f.UserName \in {"alice", "bob"}}

DoLifeUpdateCase ==
    \E update \in Updates(LifeSenders, LifeTexts), sendOk \in BOOLEAN :
        UpdateCase(update, TRUE, sendOk)

DoLifeTickerCase == TickerCase("2025-06-15", TRUE, {})

NextLife ==
    \/ DoLifeUpdateCase
    \/ DoLifeTickerCase
    \/ DoGetUsers
    \/ StateHandler
    \/ Cancel
    \/ UpdateLoopDone
    \/ SchedulerDone
    \/ MainReturn

\* main is blocked on <-ctx.Done() alone: once the context is cancelled it is
\* runnable and the Go scheduler runs it
SpecLife == InitBot /\ [][NextLife]_vars /\ WF_vars(MainReturn)

\* the scan step by step, next to the update loop and the cancellation
DoScanBegin == ScanBegin("2025-06-15")

DoScanQuery == \E i \in DOMAIN scans, dbOk \in BOOLEAN : ScanQuery(i, dbOk)

DoScanUser == \E i \in DOMAIN scans, down \in Downs : ScanUser(i, TRUE, down)

NextScan ==
    \/ DoLifeUpdateCase
    \/ Tick
    \/ DoScanBegin
    \/ DoScanQuery
    \/ DoScanUser
    \/ Cancel
    \/ UpdateLoopDone
    \/ SchedulerDone
    \/ MainReturn

SpecScan == InitBot /\ [][NextScan]_vars

-----------------------------------------------------------------------------
(* Registration over HTTP together with the bot: users register, bind      *)
(* their Telegram account with /start, subscribe and unsubscribe.          *)

\* account 101 writes as alice; account 102 writes as alice and as bob (an
\* account's username is its owner's to change)
UserSenders ==
    {[ID |-> 101, UserName |-> "alice"], [ID |-> 102, UserName |-> "alice"],
     [ID |-> 102, UserName |-> "bob"]}

UserTexts == {"/start", "/subscribe 1", "/unsubscribe 1"}

DoUsersRegister ==
    \E f \in GoodRegForms, ua \in Useragents, dbOk \in BOOLEAN :
        Register([state |-> "ok", form |-> f], ua, dbOk, TRUE)

DoUsersUpdateCase ==
    \E update \in Updates(UserSenders, UserTexts), dbOk \in BOOLEAN :
        UpdateCase(update, dbOk, TRUE)

NextUsers ==
    \/ DoUsersRegister
    \/ DoUsersUpdateCase

SpecUsers == InitHttp /\ [][NextUsers]_vars

-----------------------------------------------------------------------------
(* Properties of login and registration, over SpecAuth. *)

\* a user was registered with these credentials
Registered(username, password) ==
    \E i \in DOMAIN users :
        /\ users[i].Username = username
        /\ users[i].Password = hashPassword(password).hash

\* how often a handler called a collaborator
Calls(exchange, name) ==
    Cardinality({i \in DOMAIN exchange.calls : exchange.calls[i] = name})

\* C2: a Login with the credentials a user registered with, the stores
\* answering, succeeds: status 200, exactly one session is added, under a
\* fresh token, its ID and Login are those of the user's row, the other
\* sessions are untouched, and that token is the one in the response.
LoginRegisteredCreatesSession ==
    [][(/\ last'.op = "Login"
        /\ last'.request.body.state = "ok"
        /\ last'.request.dbOk
        /\ last'.request.sessOk
        /\ Registered(last'.request.body.form.Username, last'.request.body.form.Password))
       => /\ last'.status = StatusOK
          /\ last'.token \notin DOMAIN sessions
          /\ DOMAIN sessions' = DOMAIN sessions \cup {last'.token}
          /\ \A t \in DOMAIN sessions : sessions'[t] = sessions[t]
          /\ Calls(last', "Sessions.Create") = 1
          /\ \E i \in DOMAIN users :
                /\ users[i].Username = last'.request.body.form.Username
                /\ sessions'[last'.token].ID = users[i].ID
                /\ sessions'[last'.token].Login = users[i].Username]_vars

\* C2 happens: a registered user has just logged in and owns the new session
LoginSucceeded ==
    /\ last.op = "Login"
    /\ last.status = StatusOK
    /\ Registered(last.request.body.form.Username, last.request.body.form.Password)
    /\ last.token \in DOMAIN sessions
    /\ sessions[last.token].Login = last.request.body.form.Username

\* C3: a Login whose credentials no user registered with fails, carries no
\* token, does not call Sessions.Create and leaves the session store as it
\* was; once the form passes validation the error is ErrNoUser for an unknown
\* username and, the store answering, ErrBadPass for a wrong password.
LoginRejectedWritesNothing ==
    [][(/\ last'.op = "Login"
        /\ last'.request.body.state = "ok"
        /\ ~Registered(last'.request.body.form.Username,
                       last'.request.body.form.Password))
       => /\ last'.status # StatusOK
          /\ last'.token = ""
          /\ Calls(last', "Sessions.Create") = 0
          /\ sessions' = sessions
          /\ issued' = issued
          /\ (/\ last'.request.body.form.Password # ""
              /\ RowsByUsername(last'.request.body.form.Username) = {})
             => (last'.status = StatusBadRequest /\ last'.body = ErrNoUser)
          /\ (/\ last'.request.body.form.Password # ""
              /\ RowsByUsername(last'.request.body.form.Username) # {}
              /\ last'.request.dbOk)
             => (last'.status = StatusBadRequest /\ last'.body = ErrBadPass)]_vars

\* C3 happens: a registered username was tried with a wrong password while
\* sessions of earlier logins exist
LoginWrongPasswordRejected ==
    /\ last.op = "Login"
    /\ last.body = ErrBadPass
    /\ last.token = ""
    /\ RowsByUsername(last.request.body.form.Username) # {}
    /\ ~Registered(last.request.body.form.Username, last.request.body.form.Password)
    /\ DOMAIN sessions # {}

\* C4: a Register whose username is already in the table fails, leaves every
\* row of users as it was, adds none and creates no session; when the form
\* passes validation and the password can be hashed the error is ErrExists.
RegisterTakenUsernameFails ==
    [][(/\ last'.op = "Register"
        /\ last'.request.body.state = "ok"
        /\ RowsByUsername(last'.request.body.form.Username) # {})
       => /\ users' = users
          /\ sessions' = sessions
          /\ issued' = issued
          /\ last'.status # StatusOK
          /\ last'.token = ""
          /\ Calls(last', "Sessions.Create") = 0
          /\ (/\ dataValidation(last'.request.body.form, RegRequired, "") = {}
              /\ hashPassword(last'.request.body.form.Password).err = Nil)
             => (last'.status = StatusBadRequest /\ last'.body = ErrExists)]_vars

\* C4 happens: the store answering, a form that differs from the first
\* registration in everything but the username was refused with ErrExists
RegisterTakenUsernameRefused ==
    /\ last.op = "Register"
    /\ last.request.dbOk
    /\ last.body = ErrExists
    /\ RowsByUsername(last.request.body.form.Username) # {}
    /\ RowsByTelegram(last.request.body.form.Telegram) = {}
    /\ ~Registered(last.request.body.form.Username, last.request.body.form.Password)

-----------------------------------------------------------------------------
(* Property of the protected routes, over SpecHttp. *)

ProtectedRoutes == {"GetUsers", "SubscribeToUser", "UnsubscribeToUser"}

\* the header names a session of the store
HasSession(authorization) ==
    /\ Len(authorization) >= 7
    /\ SubSeq(authorization, 1, 7) = "Bearer "
    /\ SubSeq(authorization, 8, Len(authorization)) \in DOMAIN sessions

\* C10: a request to a protected route whose Authorization header has no
\* "Bearer " prefix, or whose token has no session, is answered 401, makes no
\* call to the user repository, and leaves both tables as they were.
UnauthenticatedNeverReachesRepository ==
    [][(/\ last'.op \in ProtectedRoutes
        /\ ~HasSession(last'.request.authorization))
       => /\ last'.status = StatusUnauthorized
          /\ Calls(last', "GetUsers") = 0
          /\ Calls(last', "Subscribe") = 0
          /\ users' = users
          /\ subscribes' = subscribes]_vars

\* C10 happens: a well-formed subscribe request between two registered users
\* came with the token of a session that has expired
ExpiredTokenRefused ==
    /\ last.op = "SubscribeToUser"
    /\ last.status = StatusUnauthorized
    /\ last.request.authorization = "Bearer " \o Token(1)
    /\ issued >= 1
    /\ last.request.body.state = "ok"
    /\ last.request.body.form.UserID \in DOMAIN users
    /\ last.request.body.form.SubscriberID \in DOMAIN users

-----------------------------------------------------------------------------
(* Properties of the bot and of the notification scan, over SpecBot. *)

\* the subscribers of userID: the users the rows of subscribes name
SubscribersOf(userID) ==
    {subscribes[i].subscriberID : i \in {j \in DOMAIN subscribes :
                                            subscribes[j].userID = userID}}

\* the number of rows of subscribes for userID
RowsFor(userID) == Cardinality({j \in DOMAIN subscribes : subscribes[j].userID = userID})

\* the stored birth date has the month and the day of the date: "MM-DD" alike
SameMonthDay(birthday, date) == SubSeq(birthday, 6, 10) = SubSeq(date, 6, 10)

\* the sends of the last scan about userID that went to chatID
SendsTo(userID, chatID) ==
    {i \in DOMAIN last.sends : last.sends[i].about = userID /\ last.sends[i].chatID = chatID}

\* the sends of the last scan about userID
SendsAbout(userID) == {i \in DOMAIN last.sends : last.sends[i].about = userID}

\* s occurs in text
Contains(text, s) ==
    \E i \in 1..(Len(text) - Len(s) + 1) : SubSeq(text, i, i + Len(s) - 1) = s

ScanDone == last.op = "CheckAndSendNotifications"

\* C1: after a scan on U's birthday, the store answering, where U's
\* subscribers are two other users, S1 without telegramID and S2 with one
\* whose chat can be reached, exactly one message about U was delivered to S2.
UnboundSubscriberDoesNotSuppress ==
    (ScanDone /\ last.dbOk)
    => \A u, s1, s2 \in DOMAIN users :
          (/\ SameMonthDay(users[u].Birthday, last.today)
           /\ s1 # s2
           /\ u \notin {s1, s2}
           /\ SubscribersOf(u) = {s1, s2}
           /\ users[s1].TelegramID = NULL
           /\ users[s2].TelegramID # NULL
           /\ users[s2].TelegramID \notin last.down)
          => Cardinality({i \in SendsTo(u, users[s2].TelegramID) :
                              last.sends[i].delivered}) = 1

\* C5: after a successful Subscribe(A, B) the subscribers GetSubscribedUsers(A)
\* lists contain B; after a successful unsubscription of B from A it answers
\* with an error or with a list without B.
SubscribeThenListed ==
    (/\ last.op \in {"subscribeHandler", "unsubscribeHandler"}
     /\ last.call.name = "Subscribe"
     /\ last.call.err = Nil)
    => LET got == GetSubscribedUsers(last.call.userID, TRUE) IN
       IF last.call.typeOf = 1
       THEN /\ got.err = Nil
            /\ \E i \in DOMAIN got.users : got.users[i].ID = last.call.subscriberID
       ELSE \/ got.err # Nil
            \/ \A i \in DOMAIN got.users : got.users[i].ID # last.call.subscriberID

\* C7: whatever updates the bot has received, the process is running.
NoUpdateEndsTheProcess == proc = "running"

\* C8: after a scan, the store answering, for every user U whose birthday it
\* is and whose subscribers all have a telegramID, every subscriber S of U was
\* sent exactly one notification about U.
OneNotificationPerSubscriber ==
    (ScanDone /\ last.dbOk)
    => \A u \in DOMAIN users :
          (/\ SameMonthDay(users[u].Birthday, last.today)
           /\ \A s \in SubscribersOf(u) : users[s].TelegramID # NULL)
          => \A s \in SubscribersOf(u) :
                Cardinality(SendsTo(u, users[s].TelegramID)) = 1

\* C9: every notification of a scan is about a user whose birth date has the
\* month and the day of the scan's date, goes to the telegramID of one of that
\* user's subscribers and carries the user's first, middle and last name; and,
\* the store answering, a user with that month and day whose subscribers all
\* have a telegramID is notified about once per row of subscribes, so once
\* for a single subscription.  A scan on another date sends nothing about the
\* user.
ScanMatchesMonthAndDay ==
    ScanDone
    => /\ \A i \in DOMAIN last.sends :
             LET u == users[last.sends[i].about] IN
             /\ SameMonthDay(u.Birthday, last.today)
             /\ \E s \in SubscribersOf(u.ID) : users[s].TelegramID = last.sends[i].chatID
             /\ Contains(last.sends[i].text,
                         u.FirstName \o " " \o u.MiddleName \o " " \o u.LastName)
       /\ last.dbOk
          => \A u \in DOMAIN users :
                (/\ SameMonthDay(users[u].Birthday, last.today)
                 /\ \A s \in SubscribersOf(u) : users[s].TelegramID # NULL)
                => Cardinality(SendsAbout(u)) = RowsFor(u)

\* C9 happens: alice, born 1990-06-15, has the one subscriber bob, whose
\* account is 102; the scan of 2025-06-15 sent one notification, to 102,
\* naming her
ScanNotifiedTheSubscriber ==
    /\ ScanDone
    /\ last.today = "2025-06-15"
    /\ subscribes = <<[userID |-> 1, subscriberID |-> 2]>>
    /\ Len(last.sends) = 1
    /\ last.sends[1].chatID = 102
    /\ last.sends[1].delivered
    /\ Contains(last.sends[1].text, "Alice A Lee")

-----------------------------------------------------------------------------
(* Property of the life cycle, over SpecLife. *)

-----------------------------------------------------------------------------
(* Properties of the table users, over SpecUsers. *)

\* no two rows share a username, a handle or a telegramID that is not NULL
UsersUnique(us) ==
    \A i, j \in DOMAIN us :
        i # j => /\ us[i].Username # us[j].Username
                 /\ us[i].Telegram # us[j].Telegram
                 /\ (us[i].TelegramID # NULL => us[i].TelegramID # us[j].TelegramID)

\* C11: in every state no two users share a username, a handle or a non-null
\* telegramID; and a registration refused with 400 or a /start answered with
\* an error leaves the table users as it was.
UniqueUsersKept ==
    /\ [](UsersUnique(users))
    /\ [][((last'.op = "Register" /\ last'.status = StatusBadRequest)
           \/ (last'.op = "startHandler" /\ last'.call.err # Nil))
          => users' = users]_vars

\* C11 happens: two users are registered, one has bound account 102, and a
\* /start that would give the other that account too has just been refused
BindOfTakenAccountRefused ==
    /\ Len(users) = 2
    /\ last.op = "startHandler"
    /\ last.call.err = ErrConstraint
    /\ \E i, j \in DOMAIN users :
          /\ users[i].TelegramID = 102
          /\ users[j].TelegramID # 102

\* C15: a telegramID that is set is not changed by any later step.
BoundAccountNeverChanges ==
    [][\A i \in DOMAIN users :
          users[i].TelegramID # NULL => users'[i].TelegramID = users[i].TelegramID]_vars

-----------------------------------------------------------------------------
(* Further properties of the repository, over SpecBot. *)

\* C12: a Subscribe whose subscribed-to id names no user fails with ErrNoUser;
\* a Subscribe that fails leaves the table subscribes as it was; one that
\* succeeds appends the row (userID, subscriberID), changes nothing else, and
\* returns the id, username and handle of the subscribed-to user.
SubscribeInsertsOneEdge ==
    [][(/\ last'.op = "subscribeHandler"
        /\ last'.call.name = "Subscribe")
       => /\ last'.call.userID \notin DOMAIN users => last'.call.err = ErrNoUser
          /\ last'.call.err # Nil => subscribes' = subscribes
          /\ last'.call.err = Nil
             => /\ subscribes' = Append(subscribes,
                                        [userID |-> last'.call.userID,
                                         subscriberID |-> last'.call.subscriberID])
                /\ users' = users
                /\ sessions' = sessions
                /\ last'.call.user =
                      [ID |-> last'.call.userID,
                       Username |-> users[last'.call.userID].Username,
                       Telegram |-> users[last'.call.userID].Telegram]]_vars

\* C12 happens: carol has just subscribed to bob, and Subscribe returned bob
CarolSubscribedToBob ==
    /\ last.op = "subscribeHandler"
    /\ last.call.err = Nil
    /\ last.call.userID = 2
    /\ last.call.subscriberID = 3
    /\ last.call.user.Telegram = "@bob"
    /\ subscribes[Len(subscribes)] = [userID |-> 2, subscriberID |-> 3]

\* the users whose birth date has the month and the day of the date
BornOn(date) == {u \in DOMAIN users : SameMonthDay(users[u].Birthday, date)}

\* a list answer over n rows of the table: ErrNoUser exactly for no row, else
\* all the rows and no error
ListAnswer(got, n) ==
    /\ got.err = ErrNoUser <=> n = 0
    /\ n > 0 => (got.err = Nil /\ Len(got.users) = n)

\* the answer when the query fails: the driver's error, which is not ErrNoUser
FailedAnswer(got) == got.err \notin {Nil, ErrNoUser}

\* C13: GetUsers, GetSubscribedUsers and GetUserByBirthday answer ErrNoUser
\* exactly when the query has no row, all the rows and no error when it has
\* some, and the driver's error when the query fails.
EmptyResultExactlyOnZeroRows ==
    /\ ListAnswer(GetUsers(TRUE), Len(users))
    /\ FailedAnswer(GetUsers(FALSE))
    /\ \A date \in ScanDates :
          /\ ListAnswer(GetUserByBirthday(MONTH(date), DAY(date), TRUE),
                        Cardinality(BornOn(date)))
          /\ FailedAnswer(GetUserByBirthday(MONTH(date), DAY(date), FALSE))
    /\ \A u \in DOMAIN users :
          /\ ListAnswer(GetSubscribedUsers(u, TRUE), RowsFor(u))
          /\ FailedAnswer(GetSubscribedUsers(u, FALSE))

-----------------------------------------------------------------------------
(* Further properties of the process, over SpecLife.                       *)

\* C14: while the process runs and the context is not cancelled, the
\* scheduler waits on a ticker that still ticks, so a scan follows each tick:
\* nothing but cancellation stops the scans.
OnlyCancelStopsScans ==
    (proc = "running" /\ ~cancelled) => (sched = "waiting" /\ ~tickerStopped)

\* the goroutines of the loops and their helpers that assign captured variables
LoopGoroutines == {UpdateLoop, StateConn}

\* C16: the concurrently running loops and their helper goroutines share no
\* variable in memory: no variable is assigned by two of them.
NoSharedVariable ==
    \A v \in DOMAIN wrote : Cardinality(wrote[v] \cap LoopGoroutines) <= 1

-----------------------------------------------------------------------------
(* Further properties of the HTTP handlers, over SpecAuth.                 *)

\* the last exchange is a login, a registration or a subscription change whose
\* repository call the store did not answer
StoreUnreachable ==
    /\ last.op \in {"Login", "Register", "SubscribeToUser", "UnsubscribeToUser"}
    /\ ~last.request.dbOk
    /\ \/ Calls(last, "Authorize") = 1
       \/ Calls(last, "Subscribe") = 1
       \/ Calls(last, "MakeUser") = 1 /\ hashPassword(last.request.body.form.Password).err = Nil

\* C17: when the relational store does not answer a login, a registration or a
\* subscription change, the response is the server fault, status 500, and none
\* of "no user found", "bad password" and "already exists".
StoreFaultIsServerFault ==
    StoreUnreachable
        => /\ last.status = StatusInternalServerError
           /\ last.body \notin {ErrNoUser, ErrBadPass, ErrExists}

\* the last exchange is a login or a registration whose body is malformed or
\* lacks a required field
BadInput ==
    /\ last.op \in {"Login", "Register"}
    /\ \/ last.request.body.state = "malformed"
       \/ /\ last.request.body.state = "ok"
          /\ dataValidation(last.request.body.form,
                            IF last.op = "Login" THEN AuthRequired ELSE RegRequired,
                            "") # {}

\* the last exchange is a login, answered by the store, with an unknown
\* username or a wrong password
NotAuthorized ==
    /\ last.op = "Login"
    /\ last.request.dbOk
    /\ Calls(last, "Authorize") = 1
    /\ ~Registered(last.request.body.form.Username, last.request.body.form.Password)

\* the last exchange is a registration the store refused for a username or a
\* handle that a user has
Conflict ==
    /\ last.op = "Register"
    /\ last.request.dbOk
    /\ Calls(last, "MakeUser") = 1
    /\ Calls(last, "Sessions.Create") = 0
    /\ \E i \in DOMAIN users :
          \/ users[i].Username = last.request.body.form.Username
          \/ users[i].Telegram = last.request.body.form.Telegram

FailureClass ==
    IF BadInput THEN "bad input"
    ELSE IF NotAuthorized THEN "not authorized"
    ELSE IF Conflict THEN "conflict"
    ELSE "none"

\* C18: two consecutive failed exchanges of different classes, among bad
\* input, not authorized and conflict, have different response statuses.
FailureClassesHaveOwnStatus ==
    [][(/\ FailureClass # "none"
        /\ FailureClass' # "none"
        /\ FailureClass # FailureClass')
       => last.status # last'.status]_vars

-----------------------------------------------------------------------------
(* The process from the start of main, and logins and registrations once   *)
(* it serves.                                                              *)

\* the state as main starts: empty tables, no session
InitBoot ==
    /\ users = <<>>
    /\ subscribes = <<>>
    /\ sessions = <<>>
    /\ issued = 0
    /\ proc = "booting"
    /\ cancelled = FALSE
    /\ updLoop = "running"
    /\ botErr = ""
    /\ sched = "waiting"
    /\ tickerStopped = FALSE
    /\ wrote = NoWrites
    /\ tickerC = 0
    /\ scans = <<>>
    /\ last = NoOp

DoBoot == \E mysqlOk, redisOk \in BOOLEAN : Boot(mysqlOk, redisOk)

NextBoot ==
    \/ DoBoot
    \/ DoLogin
    \/ DoRegisterPlain
    \/ DoExpire

SpecBoot == InitBoot /\ [][NextBoot]_vars

\* C19: after main has found the relational store or the key-value store
\* unreachable, the process is not running: neither the HTTP server nor the
\* bot with its scheduler was started.
UnreachableStoreStopsBoot ==
    (last.op = "main" /\ ~(last.mysqlOk /\ last.redisOk)) => proc # "running"

-----------------------------------------------------------------------------
(* Further property of the scan, over SpecBot.                             *)

\* the scan skips userID: no row of subscribes, or the query for the
\* subscribers ends in an error
Skipped(userID) == GetSubscribedUsers(userID, last.dbOk).err # Nil

\* C20: a scan on a date that is nobody's birthday sends nothing; it sends
\* nothing about a birthday user without subscribers or whose subscribers
\* cannot be fetched; and next to such a user every other birthday user whose
\* subscribers are fetched is notified about, once per row of subscribes.
SkippedUserDoesNotEndTheScan ==
    ScanDone
    => /\ BornOn(last.today) = {} => last.sends = <<>>
       /\ \A u \in BornOn(last.today) :
             (RowsFor(u) = 0 \/ Skipped(u)) => SendsAbout(u) = {}
       /\ \A u1, u2 \in BornOn(last.today) :
             (u1 # u2 /\ Skipped(u1) /\ ~Skipped(u2))
             => /\ Cardinality(SendsAbout(u2)) = RowsFor(u2)
                /\ \A s \in SubscribersOf(u2) : SendsTo(u2, users[s].TelegramID) # {}

\* C20 happens: on 2025-06-15 alice and bob have their birthday; the query for
\* alice's one subscriber fails, and the scan goes on to bob and sends the one
\* notification about him
ScanWentOnAfterSkippedUser ==
    /\ ScanDone
    /\ last.dbOk
    /\ last.today = "2025-06-15"
    /\ RowsFor(1) = 1
    /\ Skipped(1)
    /\ RowsFor(2) = 1
    /\ Len(last.sends) = 1
    /\ last.sends[1].about = 2
    /\ last.sends[1].delivered

\* whom the sends went to and about whom, in their order
Attempts(sends) ==
    [i \in DOMAIN sends |-> [chatID |-> sends[i].chatID, about |-> sends[i].about]]

\* C21: a send that fails changes nothing of a scan but that delivery: the
\* scan attempts the sends it attempts when every chat can be reached, so to
\* every further subscriber and about every further birthday user; and the
\* scan leaves the scheduler waiting on its ticker, for the scans to come.
FailedSendIsSwallowed ==
    /\ [](ScanDone
          => Attempts(last.sends)
                = Attempts(CheckAndSendNotifications(last.today, last.dbOk, {})))
    /\ [][(last'.op = "CheckAndSendNotifications"
           /\ \E i \in DOMAIN last'.sends : ~last'.sends[i].delivered)
          => /\ UNCHANGED <<proc, sched, tickerStopped, tickerC, scans>>
             /\ proc' = "running" /\ sched' = "waiting" /\ ~tickerStopped']_vars

\* C21 happens: the first send of a scan failed and the second was delivered
SendAfterFailedSend ==
    /\ ScanDone
    /\ Len(last.sends) = 2
    /\ ~last.sends[1].delivered
    /\ last.sends[2].delivered

\* the pairs of a table of subscriptions, and how many rows hold the pair
Edges(rows) == {rows[i] : i \in DOMAIN rows}
EdgeCount(rows, edge) == Cardinality({i \in DOMAIN rows : rows[i] = edge})

\* C22: an /unsubscribe of an existing user, once the sender is resolved,
\* succeeds; after it no row holds the pair (user, sender), every other pair has
\* the rows it had, the table users is as it was, and where no row held the
\* pair the table subscribes is as it was too.
UnsubscribeRemovesTheEdge ==
    [][(/\ last'.op = "unsubscribeHandler"
        /\ last'.call.name = "Subscribe"
        /\ last'.call.userID \in DOMAIN users)
       => LET edge == [userID |-> last'.call.userID,
                       subscriberID |-> last'.call.subscriberID]
          IN
          /\ last'.call.err = Nil
          /\ users' = users
          /\ \A other \in (Edges(subscribes) \cup Edges(subscribes') \cup {edge}) :
                EdgeCount(subscribes', other)
                   = IF other = edge THEN 0 ELSE EdgeCount(subscribes, other)
          /\ EdgeCount(subscribes, edge) = 0 => subscribes' = subscribes]_vars

\* C22 happens: bob has unsubscribed from alice and the edge from alice to bob
\* is still there
BobUnsubscribedFromAlice ==
    /\ last.op = "unsubscribeHandler"
    /\ last.call.err = Nil
    /\ last.call.userID = 1
    /\ last.call.subscriberID = 2
    /\ subscribes = <<[userID |-> 2, subscriberID |-> 1]>>

-----------------------------------------------------------------------------
(* Further properties of the protected routes, over SpecHttp.              *)

\* C23: both columns of every row of subscribes are ids of users; a Subscribe
\* naming an id that is no user's inserts no row; and no step removes a user
\* or changes an id.
EdgesReferenceUsers ==
    /\ [](\A i \in DOMAIN subscribes :
             /\ subscribes[i].userID \in DOMAIN users
             /\ subscribes[i].subscriberID \in DOMAIN users)
    /\ [][(/\ last'.op = "SubscribeToUser"
           /\ Calls(last', "Subscribe") = 1
           /\ \/ last'.request.body.form.UserID \notin DOMAIN users
              \/ last'.request.body.form.SubscriberID \notin DOMAIN users)
          => subscribes' = subscribes]_vars
    /\ [][\A i \in DOMAIN users :
             i \in DOMAIN users' /\ users'[i].ID = users[i].ID]_vars

\* C23 happens: alice alone is registered, and a subscription of user 2 to her
\* was refused and left the table empty
SubscribeOfUnknownSubscriberRefused ==
    /\ Len(users) = 1
    /\ last.op = "SubscribeToUser"
    /\ last.request.dbOk
    /\ Calls(last, "Subscribe") = 1
    /\ last.request.body.form = [UserID |-> 1, SubscriberID |-> 2]
    /\ last.status = StatusBadRequest
    /\ subscribes = <<>>

-----------------------------------------------------------------------------
(* Further property of the binding, over SpecUsers.                        *)

\* C24: for an account whose handle is the handle of no user, UpdateUser
\* returns "no rows updated" and the table users as it is; when the store does
\* not answer it returns the driver's error and the table as it is; and a
\* /start that ended in an error left the table as it was.
BindOfUnknownHandleFails ==
    /\ [](\A f \in UserSenders :
             /\ RowsByTelegram("@" \o f.UserName) = {}
                => UpdateUser(f.ID, f.UserName, TRUE)
                      = [err |-> ErrNoRowsUpdated, users |-> users]
             /\ UpdateUser(f.ID, f.UserName, FALSE) = [err |-> ErrStore, users |-> users])
    /\ [][(last'.op = "startHandler" /\ last'.call.err # Nil) => users' = users]_vars

\* C24 happens: alice alone is registered and unbound, and a /start, which
\* was bob's, ended in "no rows updated"
StartOfUnknownHandleRefused ==
    /\ Len(users) = 1
    /\ users[1].Telegram = "@alice"
    /\ users[1].TelegramID = NULL
    /\ last.op = "startHandler"
    /\ last.call.err = ErrNoRowsUpdated

-----------------------------------------------------------------------------
(* Properties of the scan in progress, over SpecScan.                      *)

\* C25: once the context is cancelled no scan begins, and a scan in progress
\* makes no further query and no further send: it stays where it is or
\* returns with the sends it had made.
ScanStopsAtCancel ==
    [][cancelled
       => \/ scans' = scans
          \/ /\ last'.op = "ScanReturn"
             /\ \E i \in DOMAIN scans :
                   /\ scans' = Without(scans, i)
                   /\ last'.sends = scans[i].sends]_vars

-----------------------------------------------------------------------------
(* Property of the identity on the protected routes, over SpecHttp.        *)

\* the session the Authorization header of the last exchange names
SessionOfLast ==
    sessions[SubSeq(last.request.authorization, 8, Len(last.request.authorization))]

\* C26: a subscription or an unsubscription over HTTP that went through has
\* as its subscriber the user of the request's session.
SubscriberIsSessionOwner ==
    (/\ last.op \in {"SubscribeToUser", "UnsubscribeToUser"}
     /\ Calls(last, "Subscribe") = 1
     /\ last.status = StatusOK)
    => last.request.body.form.SubscriberID = SessionOfLast.ID

-----------------------------------------------------------------------------
(* Property of a registration whose session fails, over SpecAuth.          *)

\* C27: a Register whose MakeUser succeeded and whose Sessions.Create failed
\* answers 500 without a token and without a session, and the user is in the
\* table; no row of users changes afterwards; so a Login with the registered
\* credentials, the stores answering, answers 200 with a token, and a Register
\* of a username that a user has answers 400 "already exists" and adds no row.
RegisterKeepsUserWithoutSession ==
    /\ [][(/\ last'.op = "Register"
           /\ Calls(last', "Sessions.Create") = 1
           /\ ~last'.request.sessOk)
          => /\ last'.status = StatusInternalServerError
             /\ last'.token = ""
             /\ sessions' = sessions
             /\ Len(users') = Len(users) + 1
             /\ users'[Len(users')].Username = last'.request.body.form.Username
             /\ users'[Len(users')].Password
                   = hashPassword(last'.request.body.form.Password).hash]_vars
    /\ [][\A i \in DOMAIN users : i \in DOMAIN users' /\ users'[i] = users[i]]_vars
    /\ [][(/\ last'.op = "Login"
           /\ last'.request.body.state = "ok"
           /\ last'.request.dbOk
           /\ last'.request.sessOk
           /\ Registered(last'.request.body.form.Username,
                         last'.request.body.form.Password))
          => last'.status = StatusOK /\ last'.token # ""]_vars
    /\ [][(/\ last'.op = "Register"
           /\ Calls(last', "MakeUser") = 1
           /\ hashPassword(last'.request.body.form.Password).err = Nil
           /\ \E i \in DOMAIN users :
                 users[i].Username = last'.request.body.form.Username)
          => /\ last'.status = StatusBadRequest
             /\ last'.body = ErrExists
             /\ users' = users]_vars

\* C27 happens: the one user was registered without a session, for the one
\* token the store ever issued is that of the Login that has just succeeded
LoginAfterRegisterWithoutSession ==
    /\ last.op = "Login"
    /\ last.status = StatusOK
    /\ Len(users) = 1
    /\ users[1].Username = last.request.body.form.Username
    /\ issued = 1
    /\ last.token = Token(1)

-----------------------------------------------------------------------------
(* Property of the order of the scans, over SpecScan.                      *)

\* C28: at most one call of CheckAndSendNotifications is in progress, and it
\* is the scheduler goroutine that is in it; a scan begins only when none is
\* in progress and takes the one tick of ticker.C; a tick that arrives during
\* a scan starts nothing; and ticker.C never holds more than one tick, a tick
\* that finds it full leaving no trace, so the ticks missed during a scan are
\* followed by at most one scan.
OneScanAtATime ==
    /\ [](Len(scans) <= 1)
    /\ [](scans # <<>> => sched = "scanning")
    /\ [](tickerC \in {0, 1})
    /\ [][Len(scans') > Len(scans)
          => scans = <<>> /\ tickerC = 1 /\ tickerC' = 0]_vars
    /\ [][last'.op = "Tick"
          => /\ scans' = scans
             /\ sched' = sched
             /\ last'.dropped => tickerC' = tickerC]_vars

\* C28 happens: a scan is in progress, past its query, and a tick that
\* arrived meanwhile found ticker.C full and was dropped
TickDroppedDuringScan ==
    /\ Len(scans) = 1
    /\ scans[1].phase = "users"
    /\ sched = "scanning"
    /\ last.op = "Tick"
    /\ last.dropped
    /\ tickerC = 1

====
